---- MODULE Spec2Model ----
(***************************************************************************)
(* Deck statistics pipeline (conditions.js and its sibling variants):      *)
(* basic metrics -> share -> meta impact -> Bayesian rating -> tier ->     *)
(* rank -> percentiles -> rounded values -> output/export.                 *)
(*                                                                         *)
(* JavaScript numbers are modelled as follows.                             *)
(*  - Raw integers (count, wins, losses, ties, total_matches, rank) are    *)
(*    TLA+ integers.                                                       *)
(*  - Quotients of integers (win rates, shares, percentiles, ...) are      *)
(*    exact normalised rationals [k |-> "num", n, d], with the IEEE        *)
(*    special values NaN and Infinity as separate kinds.                   *)
(*  - The rating engine (sqrt, log10, exp) is evaluated in decimal         *)
(*    fixed point with FS units per 1.0 (variances with FS*FS units).      *)
(***************************************************************************)
EXTENDS Integers, Sequences, FiniteSets, TLC

VARIABLES variant, decks, enrichedDecks, pc, verified, exported, call,
          allDecks, filteredDecks, displayedDecks, currentBatch, isGridView,
          isLoading, elements, searchTimeout

vars == <<variant, decks, enrichedDecks, pc, verified, exported, call,
          allDecks, filteredDecks, displayedDecks, currentBatch, isGridView,
          isLoading, elements, searchTimeout>>

\* the state of the deck renderer (renderDecks.js)
rendererVars ==
  <<allDecks, filteredDecks, displayedDecks, currentBatch, isGridView,
    isLoading, elements, searchTimeout>>

\* the page before the renderer script has touched it
PageAsLoaded ==
  [container |-> <<>>, className |-> "deck-grid", searchInput |-> <<>>,
   sortSelect |-> "rank", tierFilter |-> "all", loadingIndicator |-> "block",
   noResults |-> "none", totalDecks |-> 0, totalMatches |-> 0]

\* the renderer's module-level state before init() runs
RendererNotStarted ==
  /\ allDecks = <<>>
  /\ filteredDecks = <<>>
  /\ displayedDecks = <<>>
  /\ currentBatch = 0
  /\ isGridView = TRUE
  /\ isLoading = FALSE
  /\ searchTimeout = "none"

(***************************************************************************)
(* Bounds of the explored inputs.                                          *)
(***************************************************************************)
MaxDecks == 3
MaxCount == 1
MaxGames == 1

Variants == {"conditions", "part_000", "part_001"}

(***************************************************************************)
(* JavaScript number values.                                               *)
(***************************************************************************)
Abs(x) == IF x < 0 THEN -x ELSE x

RECURSIVE GCD(_, _)
GCD(a, b) == IF b = 0 THEN a ELSE GCD(b, a % b)

NaN == [k |-> "nan", n |-> 0, d |-> 1]
Infinity == [k |-> "inf", n |-> 1, d |-> 1]

\* the rational n/d (d > 0) in lowest terms
Num(n, d) ==
  LET g == GCD(Abs(n), d)
  IN  [k |-> "num", n |-> n \div g, d |-> d \div g]

Int2Num(i) == Num(i, 1)

IsNaN(v) == v.k = "nan"
IsFiniteNum(v) == v.k = "num"

\* a / b for non-negative a, b (IEEE: x/0 = Infinity, 0/0 = NaN)
JsDiv(a, b) ==
  CASE IsNaN(a) \/ IsNaN(b) -> NaN
    [] a.k = "inf" /\ b.k = "inf" -> NaN
    [] a.k = "inf" -> Infinity
    [] b.k = "inf" -> Num(0, 1)
    [] b.n = 0 /\ a.n = 0 -> NaN
    [] b.n = 0 -> Infinity
    [] OTHER -> Num(a.n * b.d, a.d * b.n)

\* a * b for non-negative a, b (IEEE: Infinity * 0 = NaN)
JsMul(a, b) ==
  CASE IsNaN(a) \/ IsNaN(b) -> NaN
    [] a.k = "inf" /\ b.k = "inf" -> Infinity
    [] a.k = "inf" -> IF b.n = 0 THEN NaN ELSE Infinity
    [] b.k = "inf" -> IF a.n = 0 THEN NaN ELSE Infinity
    [] OTHER -> Num(a.n * b.n, a.d * b.d)

\* a + b for finite or NaN operands
JsAdd(a, b) ==
  CASE IsNaN(a) \/ IsNaN(b) -> NaN
    [] a.k = "inf" \/ b.k = "inf" -> Infinity
    [] OTHER -> Num(a.n * b.d + b.n * a.d, a.d * b.d)

\* a < b (false whenever an operand is NaN)
JsLess(a, b) ==
  CASE IsNaN(a) \/ IsNaN(b) -> FALSE
    [] a.k = "inf" -> FALSE
    [] b.k = "inf" -> TRUE
    [] OTHER -> a.n * b.d < b.n * a.d

\* a >= b (false whenever an operand is NaN)
JsGeq(a, b) ==
  CASE IsNaN(a) \/ IsNaN(b) -> FALSE
    [] a.k = "inf" -> TRUE
    [] b.k = "inf" -> FALSE
    [] OTHER -> a.n * b.d >= b.n * a.d

\* Math.round(v): floor(v + 0.5); NaN and Infinity are returned unchanged
MathRound(v) ==
  IF v.k = "num" THEN Int2Num((2 * v.n + v.d) \div (2 * v.d)) ELSE v

(***************************************************************************)
(* Objects: a deck is a function from property names to values; writing a  *)
(* property adds it to the domain when it is not there yet.                *)
(***************************************************************************)
Put(o, f, v) == [x \in (DOMAIN o) \cup {f} |-> IF x = f THEN v ELSE o[x]]

Has(o, f) == f \in DOMAIN o

SeqSum(s, f(_)) ==
  LET RECURSIVE Go(_)
      Go(i) == IF i = 0 THEN 0 ELSE f(s[i]) + Go(i - 1)
  IN  Go(Len(s))

SeqMax(s, f(_)) ==
  LET RECURSIVE Go(_)
      Go(i) == IF i = 1 THEN f(s[1])
               ELSE IF f(s[i]) > Go(i - 1) THEN f(s[i]) ELSE Go(i - 1)
  IN  Go(Len(s))

(***************************************************************************)
(* Raw data.                                                               *)
(***************************************************************************)
DeckNames == <<"Alpha", "Bravo", "Charlie", "Delta", "Echo">>

RawDeck(i, c, w, l, t) ==
  [deck_name |-> DeckNames[i], count |-> c, wins |-> w, losses |-> l, ties |-> t]

RawShapes ==
  {s \in [count : 0..MaxCount, wins : 0..MaxGames, losses : 0..MaxGames,
          ties : 0..MaxGames] : s.wins + s.losses + s.ties <= MaxGames}

\* the collections of at most maxDecks records
Populations(maxDecks) ==
  UNION {{[i \in 1..N |-> RawDeck(i, f[i].count, f[i].wins, f[i].losses, f[i].ties)] :
            f \in [1..N -> RawShapes]} : N \in 0..maxDecks}

\* no utility function is being called on its own
NoCall ==
  [fn |-> "none", value |-> Int2Num(0), sortedArray |-> <<>>,
   returned |-> FALSE, result |-> NaN]

Init ==
  /\ RendererNotStarted
  /\ elements = PageAsLoaded
  /\ variant \in Variants
  /\ decks \in Populations(MaxDecks)
  /\ enrichedDecks = <<>>
  /\ pc = "step1"
  /\ verified = "none"
  /\ exported = [set |-> FALSE, value |-> <<>>]
  /\ call = NoCall

(***************************************************************************)
(* STEP 1: basic metrics.                                                  *)
(***************************************************************************)
\* BasicMetrics with the ties left out of total_matches
BasicMetricsNoTies(deck) ==
  LET total_matches == deck.wins + deck.losses
      win_rate == JsMul(JsDiv(Int2Num(deck.wins), Int2Num(total_matches)), Int2Num(100))
      adjusted_win_rate ==
        JsMul(JsDiv(Num(2 * deck.wins + deck.ties, 2), Int2Num(total_matches)), Int2Num(100))
      avg_matches_per_entry == JsDiv(Int2Num(total_matches), Int2Num(deck.count))
  IN  Put(Put(Put(Put(deck, "total_matches", total_matches),
                  "win_rate", win_rate),
              "adjusted_win_rate", adjusted_win_rate),
          "avg_matches_per_entry", avg_matches_per_entry)

BasicMetrics(deck) ==
  LET total_matches == deck.wins + deck.losses + deck.ties
      win_rate == JsMul(JsDiv(Int2Num(deck.wins), Int2Num(total_matches)), Int2Num(100))
      adjusted_win_rate ==
        JsMul(JsDiv(Num(2 * deck.wins + deck.ties, 2), Int2Num(total_matches)), Int2Num(100))
      avg_matches_per_entry == JsDiv(Int2Num(total_matches), Int2Num(deck.count))
  IN  Put(Put(Put(Put(deck, "total_matches", total_matches),
                  "win_rate", win_rate),
              "adjusted_win_rate", adjusted_win_rate),
          "avg_matches_per_entry", avg_matches_per_entry)

\* Step1 that writes the derived fields into the input objects themselves
Step1InPlace ==
  /\ pc = "step1"
  /\ enrichedDecks' = [i \in 1..Len(decks) |-> BasicMetrics(decks[i])]
  /\ decks' = enrichedDecks'
  /\ pc' = "step2"
  /\ UNCHANGED <<variant, verified, exported, call, rendererVars>>

Step1 ==
  /\ pc = "step1"
  /\ enrichedDecks' = [i \in 1..Len(decks) |-> BasicMetrics(decks[i])]
  /\ pc' = "step2"
  /\ UNCHANGED <<variant, decks, verified, exported, call, rendererVars>>

(***************************************************************************)
(* STEP 2: share metrics.                                                  *)
(***************************************************************************)
CountOf(d) == d.count

totalCount(eds) == SeqSum(eds, CountOf)

mostPlayedDeckCount(eds) == SeqMax(eds, CountOf)

\* ShareMetrics with the share taken against the most played deck's count
ShareMetricsVsTop(deck, total, mostPlayed) ==
  LET share == JsMul(JsDiv(Int2Num(deck.count), Int2Num(mostPlayed)), Int2Num(100))
      mostPlayedShare == JsMul(JsDiv(Int2Num(mostPlayed), Int2Num(total)), Int2Num(100))
  IN  Put(Put(deck, "share", share),
          "share_compared_to_most_played_deck",
          JsMul(JsDiv(share, mostPlayedShare), Int2Num(100)))

ShareMetrics(deck, total, mostPlayed) ==
  LET share == JsMul(JsDiv(Int2Num(deck.count), Int2Num(total)), Int2Num(100))
      mostPlayedShare == JsMul(JsDiv(Int2Num(mostPlayed), Int2Num(total)), Int2Num(100))
  IN  Put(Put(deck, "share", share),
          "share_compared_to_most_played_deck",
          JsMul(JsDiv(share, mostPlayedShare), Int2Num(100)))

Step2 ==
  /\ pc = "step2"
  /\ enrichedDecks' =
       [i \in 1..Len(enrichedDecks) |->
          ShareMetrics(enrichedDecks[i], totalCount(enrichedDecks),
                       mostPlayedDeckCount(enrichedDecks))]
  /\ pc' = "step3"
  /\ UNCHANGED <<variant, decks, verified, exported, call, rendererVars>>

(***************************************************************************)
(* STEP 3: meta impact.                                                    *)
(***************************************************************************)
MetaImpact(deck) ==
  Put(deck, "meta_impact", JsMul(deck.adjusted_win_rate, deck.share))

Step3 ==
  /\ pc = "step3"
  /\ enrichedDecks' = [i \in 1..Len(enrichedDecks) |-> MetaImpact(enrichedDecks[i])]
  /\ pc' = "step4"
  /\ UNCHANGED <<variant, decks, verified, exported, call, rendererVars>>

(***************************************************************************)
(* Fixed-point arithmetic of the rating engine.  A real x is held as       *)
(* floor(x * FS); a variance as floor(x * FS * FS).  Multiplication and    *)
(* division are exact floors and keep every intermediate below 2^31.       *)
(***************************************************************************)
FS == 10 * 10 * 10 * 10

\* a decimal constant given in thousandths
Milli(x) == x * (FS \div 1000)

Min2(a, b) == IF a < b THEN a ELSE b
Max2(a, b) == IF a > b THEN a ELSE b

\* floor(a * b / FS) for a, b >= 0
FxMul(a, b) ==
  (a \div FS) * b + (a % FS) * (b \div FS) + ((a % FS) * (b % FS)) \div FS

RECURSIVE FxDivDigits(_, _, _)
FxDivDigits(r, b, k) ==
  IF k = 0 THEN 0
  ELSE ((r * 10) \div b) * (10 ^ (k - 1)) + FxDivDigits((r * 10) % b, b, k - 1)

\* floor(a * FS / b) for a >= 0, b > 0, by long division
FxDiv(a, b) == (a \div b) * FS + FxDivDigits(a % b, b, 4)

RECURSIVE NewtonSqrt(_, _)
NewtonSqrt(x, g) ==
  LET h == (g + x \div g) \div 2
  IN  IF h >= g THEN g ELSE NewtonSqrt(x, h)

\* Math.sqrt of a variance-scaled value, result in FS units: floor(sqrt(x))
FxSqrt(x) == IF x = 0 THEN 0 ELSE NewtonSqrt(x, 65536)

\* Math.log10(k) * FS for the integers k = 1..256, rounded to nearest
Log10Table ==
  <<0, 3010, 4771, 6021, 6990, 7782, 8451, 9031, 9542, 10000, 10414, 10792,
     11139, 11461, 11761, 12041, 12304, 12553, 12788, 13010, 13222, 13424, 13617, 13802,
     13979, 14150, 14314, 14472, 14624, 14771, 14914, 15051, 15185, 15315, 15441, 15563,
     15682, 15798, 15911, 16021, 16128, 16232, 16335, 16435, 16532, 16628, 16721, 16812,
     16902, 16990, 17076, 17160, 17243, 17324, 17404, 17482, 17559, 17634, 17709, 17782,
     17853, 17924, 17993, 18062, 18129, 18195, 18261, 18325, 18388, 18451, 18513, 18573,
     18633, 18692, 18751, 18808, 18865, 18921, 18976, 19031, 19085, 19138, 19191, 19243,
     19294, 19345, 19395, 19445, 19494, 19542, 19590, 19638, 19685, 19731, 19777, 19823,
     19868, 19912, 19956, 20000, 20043, 20086, 20128, 20170, 20212, 20253, 20294, 20334,
     20374, 20414, 20453, 20492, 20531, 20569, 20607, 20645, 20682, 20719, 20755, 20792,
     20828, 20864, 20899, 20934, 20969, 21004, 21038, 21072, 21106, 21139, 21173, 21206,
     21239, 21271, 21303, 21335, 21367, 21399, 21430, 21461, 21492, 21523, 21553, 21584,
     21614, 21644, 21673, 21703, 21732, 21761, 21790, 21818, 21847, 21875, 21903, 21931,
     21959, 21987, 22014, 22041, 22068, 22095, 22122, 22148, 22175, 22201, 22227, 22253,
     22279, 22304, 22330, 22355, 22380, 22405, 22430, 22455, 22480, 22504, 22529, 22553,
     22577, 22601, 22625, 22648, 22672, 22695, 22718, 22742, 22765, 22788, 22810, 22833,
     22856, 22878, 22900, 22923, 22945, 22967, 22989, 23010, 23032, 23054, 23075, 23096,
     23118, 23139, 23160, 23181, 23201, 23222, 23243, 23263, 23284, 23304, 23324, 23345,
     23365, 23385, 23404, 23424, 23444, 23464, 23483, 23502, 23522, 23541, 23560, 23579,
     23598, 23617, 23636, 23655, 23674, 23692, 23711, 23729, 23747, 23766, 23784, 23802,
     23820, 23838, 23856, 23874, 23892, 23909, 23927, 23945, 23962, 23979, 23997, 24014,
     24031, 24048, 24065, 24082 >>

\* Math.log10(k) * FS, rounded to nearest, for the larger sample sizes + 1
Log10Large ==
  (500 :> 26990) @@
  (501 :> 26998) @@
  (502 :> 27007) @@
  (1000 :> 30000) @@
  (1001 :> 30004) @@
  (1002 :> 30009) @@
  (2000 :> 33010) @@
  (2001 :> 33012) @@
  (2002 :> 33015) @@
  (4999 :> 36989) @@
  (5000 :> 36990) @@
  (5001 :> 36991) @@
  (5002 :> 36991) @@
  (10000 :> 40000) @@
  (10001 :> 40000) @@
  (10002 :> 40001) @@
  (20001 :> 43011) @@
  (50001 :> 46990) @@
  (100001 :> 50000) @@
  (500001 :> 56990) @@
  (1000001 :> 60000) @@
  (1000002 :> 60000)

FxLog10(k) == IF k <= Len(Log10Table) THEN Log10Table[k] ELSE Log10Large[k]

\* Math.log10(5000) and Math.log10(101) (also the ratio base of Math.log)
Log10Of5000 == FxLog10(5) + 3 * FS
Log10Of101 == 2 * FS + 43

\* sum of the Taylor terms x^j / j! for j >= k, given term = x^(k-1)/(k-1)!
RECURSIVE ExpTerms(_, _, _)
ExpTerms(x, k, term) ==
  LET t == FxMul(term, x) \div k
  IN  IF k > 14 \/ t = 0 THEN 0 ELSE t + ExpTerms(x, k + 1, t)

\* Math.exp(-x) for x >= 0
FxExpNeg(x) == FxDiv(FS, FS + ExpTerms(x, 1, FS))

RECURSIVE InsertAsc(_, _)
InsertAsc(s, x) ==
  IF s = <<>> THEN <<x>>
  ELSE IF x < s[Len(s)] THEN Append(InsertAsc(SubSeq(s, 1, Len(s) - 1), x), s[Len(s)])
  ELSE Append(s, x)

RECURSIVE SortAscInt(_)
SortAscInt(s) ==
  IF s = <<>> THEN <<>> ELSE InsertAsc(SortAscInt(SubSeq(s, 1, Len(s) - 1)), s[Len(s)])

SumTo(N, f(_)) ==
  LET RECURSIVE Go(_)
      Go(i) == IF i = 0 THEN 0 ELSE f(i) + Go(i - 1)
  IN  Go(N)

\* a fixed-point value as a JavaScript number
Fx2Num(x) == Num(x, FS)

(***************************************************************************)
(* STEP 4 (conditions.js): hierarchical Bayesian rating.                   *)
(* An input row is <<origRank, deckName, wins, losses, ties>>.             *)
(***************************************************************************)
bayesianInput(eds) ==
  [i \in 1..Len(eds) |->
     <<i, eds[i].deck_name, eds[i].wins, eds[i].losses, eds[i].ties>>]

RowN(row) == row[3] + row[4] + row[5]

\* winRate = (wins + 0.5 * ties) / n of a row with n > 0
RowWinRate(row) == ((2 * row[3] + row[5]) * FS) \div (2 * RowN(row))

\* n = 0 gives winRate = 0/0 = NaN, which reaches every deck's bound through
\* the weighted mean
PoisonedByNaN(allData) == \E i \in 1..Len(allData) : RowN(allData[i]) = 0

wilsonScoreLowerBound(adjWins2, n, z) ==
  IF n = 0 THEN 0
  ELSE
    LET phat == (adjWins2 * FS) \div (2 * n)
        zz == FxMul(z, z)
        denominator == FS + zz \div n
        centre == FxDiv(phat + zz \div (2 * n), denominator)
        inner == (phat * (FS - phat) + (zz * FS) \div (4 * n)) \div n
        margin == FxDiv(FxMul(z, FxSqrt(inner)), denominator)
    IN  Max2(0, centre - margin)

effectiveSampleSize(n, total_tournament_games) ==
  LET scale == FxLog10(total_tournament_games + 1)
      dampening == Min2(FS, scale \div 6)
      maxEffectiveN == (total_tournament_games * FS) \div 2
  IN  Min2(FxMul(n * FS, Milli(500) + FxMul(Milli(500), dampening)), maxEffectiveN)

confidenceToZ(conf) ==
  IF conf >= Milli(950) THEN Milli(1960)
  ELSE IF conf >= Milli(900) THEN Milli(1645)
  ELSE IF conf >= Milli(850) THEN Milli(1440)
  ELSE IF conf >= Milli(800) THEN Milli(1280)
  ELSE IF conf >= Milli(750) THEN Milli(1150)
  ELSE FS

baseConfidenceOf(total_tournament_games) ==
  IF total_tournament_games < 1000 THEN Milli(750)
  ELSE IF total_tournament_games < 10000 THEN Milli(800)
  ELSE IF total_tournament_games < 50000 THEN Milli(850)
  ELSE IF total_tournament_games < 200000 THEN Milli(900)
  ELSE Milli(950)

\* PHASE 1 and 2: the population-wide prior and base z-score
PriorConditions(allData) ==
  LET totalDecks == Len(allData)
      n(i) == RowN(allData[i])
      winRate(i) == RowWinRate(allData[i])
      total_tournament_games == SumTo(totalDecks, n)
      avgGamesPerDeck == (total_tournament_games * FS) \div totalDecks
      wrTimesN(i) == winRate(i) * n(i)
      weightedMean == SumTo(totalDecks, wrTimesN) \div total_tournament_games
      sqDev(i) == n(i) * ((winRate(i) - weightedMean) * (winRate(i) - weightedMean))
      weightedVariance == SumTo(totalDecks, sqDev) \div total_tournament_games
      sortedWinRates == SortAscInt([i \in 1..totalDecks |-> winRate(i)])
      median == sortedWinRates[(totalDecks \div 2) + 1]
      priorCenter == Max2(Milli(10), Min2(Milli(990), (weightedMean + median) \div 2))
      bernoulli == priorCenter * (FS - priorCenter)
      metaDiversity == FxDiv(weightedVariance, bernoulli)
      diversityFactor == Min2(Milli(1500), Milli(500) + metaDiversity)
      adjustedVariance ==
        Max2(FS, Min2((bernoulli * 9) \div 10, FxMul(weightedVariance, diversityFactor)))
      priorStrength == Max2(2 * FS, FxDiv(bernoulli, adjustedVariance) - FS)
      adjustedConfidence ==
        FxMul(baseConfidenceOf(total_tournament_games),
              Milli(850) + FxMul(Milli(150), FS - Min2(FS, metaDiversity)))
  IN  [total_tournament_games |-> total_tournament_games,
       avgGamesPerDeck |-> avgGamesPerDeck,
       weightedMean |-> weightedMean,
       weightedVariance |-> weightedVariance,
       priorCenter |-> priorCenter,
       adjustedVariance |-> adjustedVariance,
       priorStrength |-> priorStrength,
       priorAlpha |-> FxMul(priorCenter, priorStrength),
       priorBeta |-> FxMul(FS - priorCenter, priorStrength),
       baseZ |-> confidenceToZ(adjustedConfidence)]

\* the weight of the Wilson bound, growing with the sample size n
sampleSizeFactor(n) == Min2(FS, FxDiv(FxLog10(n + 1), Log10Of5000))

\* deckZ with the factor 1 + sampleSizeFactor in place of 2 - sampleSizeFactor
deckZLessConservative(baseZ, n) == FxMul(baseZ, FS + sampleSizeFactor(n))

\* the z-score applied to a deck of n games
deckZ(baseZ, n) == FxMul(baseZ, 2 * FS - sampleSizeFactor(n))

\* PHASE 3: finalBound of one row under the prior pr
PosteriorConditions(row, pr) ==
  LET n == RowN(row)
      adjWins2 == 2 * row[3] + row[5]
      adjLosses2 == 2 * row[4] + row[5]
      effectiveN == effectiveSampleSize(n, pr.total_tournament_games)
      postAlpha == pr.priorAlpha + (adjWins2 * FS) \div 2
      postBeta == pr.priorBeta + (adjLosses2 * FS) \div 2
      posteriorMean == FxDiv(postAlpha, postAlpha + postBeta)
      ssf == sampleSizeFactor(n)
      z == deckZ(pr.baseZ, n)
      wilsonLowerBound == wilsonScoreLowerBound(adjWins2, n, z)
      \* alpha*beta / ((alpha+beta)^2 * (alpha+beta+1)), in variance units
      postVariance ==
        FxDiv(posteriorMean * FxDiv(postBeta, postAlpha + postBeta),
              postAlpha + postBeta + FS)
      betaLowerBound == Max2(0, posteriorMean - FxMul(z, FxSqrt(postVariance)))
      wilsonWeight == ssf
      combinedLowerBound ==
        FxMul(wilsonWeight, wilsonLowerBound) + FxMul(FS - wilsonWeight, betaLowerBound)
      regularizationStrength == FxExpNeg(FxDiv(effectiveN, pr.avgGamesPerDeck * 2))
      regularizedBound ==
        FxMul(combinedLowerBound, FS - regularizationStrength)
          + FxMul(pr.priorCenter, regularizationStrength)
      qualityBonus ==
        Min2(Milli(20), FxMul(effectiveN \div pr.total_tournament_games, Milli(500)))
  IN  Min2(Milli(990), regularizedBound + qualityBonus)

\* adjustedLowerBound of every row, as JavaScript numbers
hierarchicalBayesianConditions(allData) ==
  IF PoisonedByNaN(allData) THEN [i \in 1..Len(allData) |-> NaN]
  ELSE [i \in 1..Len(allData) |->
          Fx2Num(PosteriorConditions(allData[i], PriorConditions(allData)))]

ScaleConditions == 175

calculateRating(bound) == JsMul(bound, Int2Num(ScaleConditions))

(***************************************************************************)
(* STEP 4 (part_000, part_001): hierarchical Bayesian rating with a        *)
(* dynamic z-score.                                                        *)
(***************************************************************************)
breakpoints ==
  << [n |-> 1,       z |-> Milli(3536)],
     [n |-> 5,       z |-> Milli(3463)],
     [n |-> 10,      z |-> Milli(3404)],
     [n |-> 20,      z |-> Milli(3350)],
     [n |-> 30,      z |-> Milli(3302)],
     [n |-> 50,      z |-> Milli(3256)],
     [n |-> 100,     z |-> Milli(3201)],
     [n |-> 200,     z |-> Milli(3151)],
     [n |-> 500,     z |-> Milli(3101)],
     [n |-> 1000,    z |-> Milli(3063)],
     [n |-> 2000,    z |-> Milli(3035)],
     [n |-> 5000,    z |-> Milli(3007)],
     [n |-> 10000,   z |-> Milli(2987)],
     [n |-> 20000,   z |-> Milli(2972)],
     [n |-> 50000,   z |-> Milli(2955)],
     [n |-> 100000,  z |-> Milli(2943)],
     [n |-> 500000,  z |-> Milli(2931)],
     [n |-> 1000000, z |-> Milli(2931)] >>

\* index of the first segment [breakpoints[i], breakpoints[i+1]] that holds n,
\* or 0 when the loop finds none
RECURSIVE FindSegment(_, _)
FindSegment(n, i) ==
  IF i > Len(breakpoints) - 1 THEN 0
  ELSE IF n >= breakpoints[i].n /\ n <= breakpoints[i + 1].n THEN i
  ELSE FindSegment(n, i + 1)

getDynamicZScore(n0) ==
  LET n == Max2(1, Min2(n0, 1000000))
      seg == FindSegment(n, 1)
      lower == IF seg = 0 THEN breakpoints[1] ELSE breakpoints[seg]
      upper == IF seg = 0 THEN breakpoints[Len(breakpoints)] ELSE breakpoints[seg + 1]
      range == upper.n - lower.n
      \* lower.z + progress * zRange with zRange <= 0
      interpolatedZ == lower.z - ((n - lower.n) * (lower.z - upper.z)) \div range
      logSmoothing == FxDiv(FxLog10(n + 1), Log10Of101)
      smoothingFactor == FS + FxMul(Milli(50), FS - logSmoothing)
  IN  IF n < 100 THEN FxMul(interpolatedZ, smoothingFactor) ELSE interpolatedZ

getMetaAdjustmentFactor(totalDecks) ==
  LET referenceSize == 100
      adjustment == Milli(800) + (Milli(200) * totalDecks) \div referenceSize
  IN  IF totalDecks >= referenceSize THEN FS
      ELSE Max2(Milli(800), Min2(adjustment, FS))

\* PriorPart with the weighted mean used as it is, not clamped to [0.01, 0.99]
PriorPartMeanUnclamped(allData) ==
  LET totalDecks == Len(allData)
      n(i) == RowN(allData[i])
      winRate(i) == RowWinRate(allData[i])
      totalGames == SumTo(totalDecks, n)
      wrTimesN(i) == winRate(i) * n(i)
      weightedMean == SumTo(totalDecks, wrTimesN) \div totalGames
      sqDev(i) == (winRate(i) - weightedMean) * (winRate(i) - weightedMean)
      betweenDeckVariance == SumTo(totalDecks, sqDev) \div totalDecks
      meanEst == weightedMean
      maxVariance == meanEst * (FS - meanEst)
      varEst == Max2(FS, Min2(betweenDeckVariance, (maxVariance * 85) \div 100))
      alphaBetaScale == FxDiv(maxVariance, varEst) - FS
  IN  [metaAdjustment |-> getMetaAdjustmentFactor(totalDecks),
       weightedMean |-> weightedMean,
       betweenDeckVariance |-> betweenDeckVariance,
       meanEst |-> meanEst,
       varEst |-> varEst,
       priorAlpha |-> Max2(Milli(500), FxMul(meanEst, alphaBetaScale)),
       priorBeta |-> Max2(Milli(500), FxMul(FS - meanEst, alphaBetaScale))]

\* STEP 1 and 2 of the function: meta statistics and the Beta prior
PriorPart(allData) ==
  LET totalDecks == Len(allData)
      n(i) == RowN(allData[i])
      winRate(i) == RowWinRate(allData[i])
      totalGames == SumTo(totalDecks, n)
      wrTimesN(i) == winRate(i) * n(i)
      weightedMean == SumTo(totalDecks, wrTimesN) \div totalGames
      sqDev(i) == (winRate(i) - weightedMean) * (winRate(i) - weightedMean)
      betweenDeckVariance == SumTo(totalDecks, sqDev) \div totalDecks
      meanEst == Max2(Milli(10), Min2(Milli(990), weightedMean))
      maxVariance == meanEst * (FS - meanEst)
      varEst == Max2(FS, Min2(betweenDeckVariance, (maxVariance * 85) \div 100))
      alphaBetaScale == FxDiv(maxVariance, varEst) - FS
  IN  [metaAdjustment |-> getMetaAdjustmentFactor(totalDecks),
       weightedMean |-> weightedMean,
       betweenDeckVariance |-> betweenDeckVariance,
       meanEst |-> meanEst,
       varEst |-> varEst,
       priorAlpha |-> Max2(Milli(500), FxMul(meanEst, alphaBetaScale)),
       priorBeta |-> Max2(Milli(500), FxMul(FS - meanEst, alphaBetaScale))]

\* the z-score applied to a deck of n games in a meta of the given adjustment
adjustedZ(n, metaAdjustment) == FxMul(getDynamicZScore(n), metaAdjustment)

\* STEP 3 of the function: lowerBound (after the 0.99 clamp) of one row
PosteriorPart(row, pr) ==
  LET wins == row[3]
      losses == row[4]
      ties == row[5]
      n == wins + losses + ties
      z == adjustedZ(n, pr.metaAdjustment)
      postAlpha == pr.priorAlpha + wins * FS
      postBeta == pr.priorBeta + losses * FS
      finalAlpha == postAlpha + (ties * FS) \div 2
      finalBeta == postBeta + (ties * FS) \div 2
      posteriorMean == FxDiv(finalAlpha, finalAlpha + finalBeta)
      posteriorVariance ==
        FxDiv(posteriorMean * FxDiv(finalBeta, finalAlpha + finalBeta),
              finalAlpha + finalBeta + FS)
      posteriorStdDev == FxSqrt(posteriorVariance)
      lowerBound == Max2(0, posteriorMean - FxMul(z, posteriorStdDev))
  IN  Min2(Milli(990), lowerBound)

hierarchicalBayesianPart(allData) ==
  IF PoisonedByNaN(allData) THEN [i \in 1..Len(allData) |-> NaN]
  ELSE [i \in 1..Len(allData) |->
          Fx2Num(PosteriorPart(allData[i], PriorPart(allData)))]

ScalePart == 180

calculateStrength(winPct) == JsMul(winPct, Int2Num(ScalePart))

bayesianResults(v, eds) ==
  IF v = "conditions" THEN hierarchicalBayesianConditions(bayesianInput(eds))
  ELSE hierarchicalBayesianPart(bayesianInput(eds))

RatingOf(v, bound) ==
  IF v = "conditions" THEN calculateRating(bound) ELSE calculateStrength(bound)

Step4 ==
  /\ pc = "step4"
  /\ enrichedDecks' =
       [i \in 1..Len(enrichedDecks) |->
          Put(enrichedDecks[i], "rating",
              RatingOf(variant, bayesianResults(variant, enrichedDecks)[i]))]
  /\ pc' = "step5"
  /\ UNCHANGED <<variant, decks, verified, exported, call, rendererVars>>

(***************************************************************************)
(* STEP 5: tiers.                                                          *)
(***************************************************************************)
Tiers == {"X", "Splus", "S", "A", "B", "C", "D", "E", "F", "Unranked"}

tierDisplayMap ==
  [t \in Tiers |-> IF t = "Splus" THEN "S+" ELSE t]

\* TierLadder with the threshold of S tested before the threshold of S+
TierLadderMisordered(v) ==
  IF v = "conditions"
  THEN << <<100, "X">>, <<94, "S">>, <<97, "Splus">>, <<91, "A">>, <<88, "B">>,
          <<85, "C">>, <<82, "D">>, <<79, "E">>, <<76, "F">> >>
  ELSE << <<100, "X">>, <<93, "S">>, <<97, "Splus">>, <<90, "A">>, <<87, "B">>,
          <<84, "C">>, <<81, "D">>, <<78, "E">>, <<75, "F">> >>

\* the thresholds of the if/else-if chain, in the order they are tested
TierLadder(v) ==
  IF v = "conditions"
  THEN << <<100, "X">>, <<97, "Splus">>, <<94, "S">>, <<91, "A">>, <<88, "B">>,
          <<85, "C">>, <<82, "D">>, <<79, "E">>, <<76, "F">> >>
  ELSE << <<100, "X">>, <<97, "Splus">>, <<93, "S">>, <<90, "A">>, <<87, "B">>,
          <<84, "C">>, <<81, "D">>, <<78, "E">>, <<75, "F">> >>

RECURSIVE TierFrom(_, _, _)
TierFrom(ladder, i, rating) ==
  IF i > Len(ladder) THEN "Unranked"
  ELSE IF JsGeq(rating, Int2Num(ladder[i][1])) THEN ladder[i][2]
  ELSE TierFrom(ladder, i + 1, rating)

TierOf(v, rating) == TierFrom(TierLadder(v), 1, rating)

\* conditions.js stores the display text as tierDisplay, the others as tier_display
TierDisplayField(v) == IF v = "conditions" THEN "tierDisplay" ELSE "tier_display"

\* AssignTier without the final else branch: nothing is stored below the
\* lowest threshold
AssignTierNoFallback(v, deck) ==
  LET tier == TierOf(v, deck.rating)
  IN  IF tier = "Unranked" THEN deck
      ELSE Put(Put(deck, "tier", tier), TierDisplayField(v), tierDisplayMap[tier])

AssignTier(v, deck) ==
  LET tier == TierOf(v, deck.rating)
  IN  Put(Put(deck, "tier", tier), TierDisplayField(v), tierDisplayMap[tier])

Step5 ==
  /\ pc = "step5"
  /\ enrichedDecks' = [i \in 1..Len(enrichedDecks) |-> AssignTier(variant, enrichedDecks[i])]
  /\ pc' = "step6"
  /\ UNCHANGED <<variant, decks, verified, exported, call, rendererVars>>

(***************************************************************************)
(* STEP 6: ranks.                                                          *)
(***************************************************************************)
Perms(N) == {p \in [1..N -> 1..N] : \A i, j \in 1..N : p[i] = p[j] => i = j}

\* the comparator (a, b) => b.rating - a.rating counts as 0: the ratings are
\* equal, or the difference is NaN, which the sort takes as +0
ComparesEqual(x, y) == IsNaN(x) \/ IsNaN(y) \/ x = y

\* StableDescByRating with the ratings in ascending order
StableAscByRating(eds, p) ==
  \A a, b \in 1..Len(eds) :
     a < b => /\ ComparesEqual(eds[p[a]].rating, eds[p[b]].rating)
                   \/ JsGeq(eds[p[b]].rating, eds[p[a]].rating)
              /\ (ComparesEqual(eds[p[a]].rating, eds[p[b]].rating) => p[a] < p[b])

\* StableDescByRating without the stability of the sort
UnstableDescByRating(eds, p) ==
  \A a, b \in 1..Len(eds) :
     a < b => \/ ComparesEqual(eds[p[a]].rating, eds[p[b]].rating)
              \/ JsGeq(eds[p[a]].rating, eds[p[b]].rating)

\* p lists the indices of eds in stable descending order of rating
StableDescByRating(eds, p) ==
  \A a, b \in 1..Len(eds) :
     a < b => /\ ComparesEqual(eds[p[a]].rating, eds[p[b]].rating)
                   \/ JsGeq(eds[p[a]].rating, eds[p[b]].rating)
              /\ (ComparesEqual(eds[p[a]].rating, eds[p[b]].rating) => p[a] < p[b])

\* decksByRating of a sort that may return any order
decksByRatingAnyOrder(eds) == Perms(Len(eds))

\* The orders [...enrichedDecks].sort((a, b) => b.rating - a.rating) may
\* produce.  The sort is stable and takes a NaN from the comparator as +0, so
\* a population whose ratings are all NaN keeps its order.  A mix of NaN and
\* finite ratings makes the comparator inconsistent and the order
\* implementation-defined.
decksByRating(eds) ==
  IF /\ \E i \in 1..Len(eds) : IsNaN(eds[i].rating)
     /\ \E i \in 1..Len(eds) : ~IsNaN(eds[i].rating)
  THEN Perms(Len(eds))
  ELSE {p \in Perms(Len(eds)) : StableDescByRating(eds, p)}

\* position of index i in the order p
PosIn(p, i) == CHOOSE pos \in DOMAIN p : p[pos] = i

\* AssignRank with zero-based ranks
AssignRankZeroBased(deck, index) == Put(deck, "rank", index)

AssignRank(deck, index) == Put(deck, "rank", index + 1)

Step6 ==
  /\ pc = "step6"
  /\ \E p \in decksByRating(enrichedDecks) :
       enrichedDecks' =
         [i \in 1..Len(enrichedDecks) |-> AssignRank(enrichedDecks[i], PosIn(p, i) - 1)]
  /\ pc' = "step7"
  /\ UNCHANGED <<variant, decks, verified, exported, call, rendererVars>>

(***************************************************************************)
(* STEP 7: percentiles.                                                    *)
(***************************************************************************)
CountLess(value, arr) == Cardinality({i \in 1..Len(arr) : JsLess(arr[i], value)})

calculatePercentile(value, sortedArray) ==
  LET rank == CountLess(value, sortedArray)
  IN  JsMul(JsDiv(Int2Num(rank), Int2Num(Len(sortedArray) - 1)), Int2Num(100))

RECURSIVE InsertAscNum(_, _)
InsertAscNum(s, x) ==
  IF s = <<>> THEN <<x>>
  ELSE IF JsLess(x, s[Len(s)])
       THEN Append(InsertAscNum(SubSeq(s, 1, Len(s) - 1), x), s[Len(s)])
  ELSE Append(s, x)

\* arr.sort((a, b) => a - b); calculatePercentile only counts the elements
\* below a value, so the place a NaN or Infinity ends up in does not matter
RECURSIVE SortAscNum(_)
SortAscNum(s) ==
  IF s = <<>> THEN <<>> ELSE InsertAscNum(SortAscNum(SubSeq(s, 1, Len(s) - 1)), s[Len(s)])

Sorted(eds, f) == SortAscNum([i \in 1..Len(eds) |-> eds[i][f]])

SortedInts(eds, f) == SortAscNum([i \in 1..Len(eds) |-> Int2Num(eds[i][f])])

Negated(arr) == [i \in 1..Len(arr) |-> Int2Num(-(arr[i].n))]

Percentiles(deck, eds) ==
  LET p1 == Put(deck, "rating_pct", calculatePercentile(deck.rating, Sorted(eds, "rating")))
      p2 == Put(p1, "count_pct",
                calculatePercentile(Int2Num(deck.count), SortedInts(eds, "count")))
      p3 == Put(p2, "total_matches_pct",
                calculatePercentile(Int2Num(deck.total_matches),
                                    SortedInts(eds, "total_matches")))
      p4 == Put(p3, "win_rate_pct",
                calculatePercentile(deck.win_rate, Sorted(eds, "win_rate")))
      p5 == Put(p4, "adjusted_win_rate_pct",
                calculatePercentile(deck.adjusted_win_rate, Sorted(eds, "adjusted_win_rate")))
      p6 == Put(p5, "avg_matches_per_entry_pct",
                calculatePercentile(deck.avg_matches_per_entry,
                                    Sorted(eds, "avg_matches_per_entry")))
      p7 == Put(p6, "meta_impact_pct",
                calculatePercentile(deck.meta_impact, Sorted(eds, "meta_impact")))
  IN  Put(p7, "rank_pct",
          calculatePercentile(Int2Num(-deck.rank), Negated(SortedInts(eds, "rank"))))

Step7 ==
  /\ pc = "step7"
  /\ enrichedDecks' =
       [i \in 1..Len(enrichedDecks) |-> Percentiles(enrichedDecks[i], enrichedDecks)]
  /\ pc' = "step8"
  /\ UNCHANGED <<variant, decks, verified, exported, call, rendererVars>>

(***************************************************************************)
(* STEP 8: rounded values.                                                 *)
(***************************************************************************)
\* Math.round(num / interval) * interval for integers num >= 0, interval > 0
roundToNearest(num, interval) == ((2 * num + interval) \div (2 * interval)) * interval

getSmartRoundingInterval(num) ==
  IF num < 100 THEN 5
  ELSE IF num < 1000 THEN 10
  ELSE IF num < 10000 THEN 50
  ELSE 100

\* part_001: a count as text, with "k" for thousands
formatWithK(num) ==
  IF num < 1000 THEN ToString(num)
  ELSE IF num >= 5000 THEN ToString(num \div 1000) \o "k+"
  ELSE LET tenths == (2 * num + 100) \div 200   \* Math.round(thousands * 10)
       IN  IF tenths % 10 = 0 THEN ToString(tenths \div 10) \o "k"
           ELSE ToString(tenths \div 10) \o "." \o ToString(tenths % 10) \o "k"

CountRounded(v, deck) ==
  IF v = "part_001" THEN formatWithK(deck.count)
  ELSE roundToNearest(deck.count, getSmartRoundingInterval(deck.count))

TotalMatchesRounded(v, deck) ==
  IF v = "part_001" THEN formatWithK(deck.total_matches)
  ELSE roundToNearest(deck.total_matches,
                      IF deck.total_matches < 1000 THEN 100 ELSE 1000)

\* Rounded that also overwrites the share with its rounded value
RoundedInPlace(v, deck) ==
  LET r1 == Put(deck, "count_rounded", CountRounded(v, deck))
      r2 == Put(r1, "total_matches_rounded", TotalMatchesRounded(v, deck))
      r3 == Put(r2, "win_rate_rounded", MathRound(deck.win_rate))
  IN  Put(Put(r3, "share_rounded", MathRound(deck.share)), "share", MathRound(deck.share))

Rounded(v, deck) ==
  LET r1 == Put(deck, "count_rounded", CountRounded(v, deck))
      r2 == Put(r1, "total_matches_rounded", TotalMatchesRounded(v, deck))
      r3 == Put(r2, "win_rate_rounded", MathRound(deck.win_rate))
  IN  Put(r3, "share_rounded", MathRound(deck.share))

Step8 ==
  /\ pc = "step8"
  /\ enrichedDecks' = [i \in 1..Len(enrichedDecks) |-> Rounded(variant, enrichedDecks[i])]
  /\ pc' = "output"
  /\ UNCHANGED <<variant, decks, verified, exported, call, rendererVars>>

(***************************************************************************)
(* Output: enrichedDecks.sort((a, b) => a.rank - b.rank) sorts the         *)
(* collection itself before it is printed.                                 *)
(***************************************************************************)
SortByRank(eds) ==
  [pos \in 1..Len(eds) |-> eds[CHOOSE i \in 1..Len(eds) : eds[i].rank = pos]]

Output ==
  /\ pc = "output"
  /\ enrichedDecks' = SortByRank(enrichedDecks)
  /\ pc' = IF variant = "conditions" THEN "export" ELSE "verify"
  /\ UNCHANGED <<variant, decks, verified, exported, call, rendererVars>>

(***************************************************************************)
(* Verification (part_000, part_001): the first deck is tested for the     *)
(* required properties; reading a property of undefined throws.            *)
(***************************************************************************)
requiredConditions ==
  {"deck_name", "count", "wins", "losses", "ties",
   "total_matches", "win_rate", "adjusted_win_rate", "avg_matches_per_entry",
   "share", "share_compared_to_most_played_deck", "meta_impact",
   "rating", "tier", "tier_display", "rank",
   "rating_pct", "count_pct", "total_matches_pct", "win_rate_pct",
   "adjusted_win_rate_pct", "avg_matches_per_entry_pct", "meta_impact_pct", "rank_pct",
   "count_rounded", "total_matches_rounded", "win_rate_rounded", "share_rounded"}

missingConditions(firstDeck) == {c \in requiredConditions : ~Has(firstDeck, c)}

Verify ==
  /\ pc = "verify"
  /\ IF Len(enrichedDecks) = 0
     THEN /\ pc' = "crashed"
          /\ verified' = verified
     ELSE /\ pc' = "export"
          /\ verified' = IF missingConditions(enrichedDecks[1]) = {} THEN "ok" ELSE "warning"
  /\ UNCHANGED <<variant, decks, enrichedDecks, exported, call, rendererVars>>

(***************************************************************************)
(* Export: module.exports = enrichedDecks.                                 *)
(***************************************************************************)
Export ==
  /\ pc = "export"
  /\ exported' = [set |-> TRUE, value |-> enrichedDecks]
  /\ pc' = "done"
  /\ UNCHANGED <<variant, decks, enrichedDecks, verified, call, rendererVars>>

Next ==
  \/ Step1 \/ Step2 \/ Step3 \/ Step4 \/ Step5 \/ Step6 \/ Step7 \/ Step8
  \/ Output \/ Verify \/ Export

Spec == Init /\ [][Next]_vars

(***************************************************************************)
(* A second family of inputs for the rating engine: two decks with the     *)
(* same proportions of wins, losses and ties but different sample sizes,   *)
(* optionally next to a third deck.  Only the stages up to the rating run. *)
(***************************************************************************)
ShrinkBase == 2
ShrinkMult == 2

GameShapes(maxN) ==
  {s \in [wins : 0..maxN, losses : 0..maxN, ties : 0..maxN] :
     s.wins + s.losses + s.ties >= 1 /\ s.wins + s.losses + s.ties <= maxN}

ShrinkPopulations ==
  {<<RawDeck(1, 1, b.wins, b.losses, b.ties),
     RawDeck(2, 1, m * b.wins, m * b.losses, m * b.ties)>> \o rest :
     b \in GameShapes(ShrinkBase), m \in 2..ShrinkMult,
     rest \in {<<>>} \cup {<<RawDeck(3, 1, o.wins, o.losses, o.ties)>> :
                             o \in GameShapes(ShrinkBase)}}

InitShrink ==
  /\ RendererNotStarted
  /\ elements = PageAsLoaded
  /\ variant \in Variants
  /\ decks \in ShrinkPopulations
  /\ enrichedDecks = <<>>
  /\ pc = "step1"
  /\ verified = "none"
  /\ exported = [set |-> FALSE, value |-> <<>>]
  /\ call = NoCall

NextShrink == Step1 \/ Step2 \/ Step3 \/ Step4

SpecShrink == InitShrink /\ [][NextShrink]_vars

(***************************************************************************)
(* calculatePercentile called on its own: the value and the ascending      *)
(* array are arguments of the caller's choice; the value need not be an    *)
(* element of the array.  The arrays are the non-empty subsets of          *)
(* 50, 60, ... in ascending order, the values 45, 50, 55, ...              *)
(***************************************************************************)
PctPoints == 5

PctElement(k) == 40 + 10 * k

\* the elements of the set of indices ks in ascending order
RECURSIVE AscendingArray(_)
AscendingArray(ks) ==
  IF ks = {} THEN <<>>
  ELSE LET top == CHOOSE k \in ks : \A j \in ks : j <= k
       IN  Append(AscendingArray(ks \ {top}), Int2Num(PctElement(top)))

PctArrays == {AscendingArray(ks) : ks \in (SUBSET (1..PctPoints)) \ {{}}}

PctValues == {Int2Num(40 + 5 * j) : j \in 1..(2 * PctPoints + 1)}

InitPct ==
  /\ RendererNotStarted
  /\ elements = PageAsLoaded
  /\ variant \in Variants
  /\ decks = <<>>
  /\ enrichedDecks = <<>>
  /\ pc = "call"
  /\ verified = "none"
  /\ exported = [set |-> FALSE, value |-> <<>>]
  /\ \E v \in PctValues, arr \in PctArrays :
       call = [fn |-> "calculatePercentile", value |-> v, sortedArray |-> arr,
               returned |-> FALSE, result |-> NaN]

CallPercentile ==
  /\ call.fn = "calculatePercentile"
  /\ ~call.returned
  /\ call' = [call EXCEPT !.returned = TRUE,
                          !.result = calculatePercentile(call.value, call.sortedArray)]
  /\ UNCHANGED <<variant, decks, enrichedDecks, pc, verified, exported, rendererVars>>

NextPct == CallPercentile

SpecPct == InitPct /\ [][NextPct]_vars

(***************************************************************************)
(* The same stages with every loop taken one callback at a time: decks.map *)
(* appends one enriched record per call, each forEach handles the next     *)
(* element that its stage has not written yet, and a stage starts when the *)
(* loop before it has run out of elements.  Values computed ahead of a     *)
(* loop (totals, bayesianResults, decksByRating, the sorted arrays) depend *)
(* only on fields the loop does not write.                                 *)
(***************************************************************************)
\* index of the first element of eds without the property f, 0 if none
FirstWithout(eds, f) ==
  IF \A i \in 1..Len(eds) : Has(eds[i], f) THEN 0
  ELSE CHOOSE i \in 1..Len(eds) :
         ~Has(eds[i], f) /\ \A j \in 1..(i - 1) : Has(eds[j], f)

MapEach ==
  /\ pc = "step1"
  /\ IF Len(enrichedDecks) < Len(decks)
     THEN /\ enrichedDecks' =
               Append(enrichedDecks, BasicMetrics(decks[Len(enrichedDecks) + 1]))
          /\ pc' = pc
     ELSE /\ pc' = "step2"
          /\ enrichedDecks' = enrichedDecks
  /\ UNCHANGED <<variant, decks, verified, exported, call, rendererVars>>

ShareEach ==
  /\ pc = "step2"
  /\ LET i == FirstWithout(enrichedDecks, "share")
     IN  IF i # 0
         THEN /\ enrichedDecks' =
                   [enrichedDecks EXCEPT ![i] =
                      ShareMetrics(enrichedDecks[i], totalCount(enrichedDecks),
                                   mostPlayedDeckCount(enrichedDecks))]
              /\ pc' = pc
         ELSE /\ pc' = "step3"
              /\ enrichedDecks' = enrichedDecks
  /\ UNCHANGED <<variant, decks, verified, exported, call, rendererVars>>

MetaImpactEach ==
  /\ pc = "step3"
  /\ LET i == FirstWithout(enrichedDecks, "meta_impact")
     IN  IF i # 0
         THEN /\ enrichedDecks' = [enrichedDecks EXCEPT ![i] = MetaImpact(enrichedDecks[i])]
              /\ pc' = pc
         ELSE /\ pc' = "step4"
              /\ enrichedDecks' = enrichedDecks
  /\ UNCHANGED <<variant, decks, verified, exported, call, rendererVars>>

\* RateEach fused with the ranking: the rank is written in the same pass
RateAndRankEach ==
  /\ pc = "step4"
  /\ LET i == FirstWithout(enrichedDecks, "rating")
     IN  IF i # 0
         THEN /\ enrichedDecks' =
                   [enrichedDecks EXCEPT ![i] =
                      AssignRank(Put(enrichedDecks[i], "rating",
                                     RatingOf(variant,
                                              bayesianResults(variant, enrichedDecks)[i])),
                                 i - 1)]
              /\ pc' = pc
         ELSE /\ pc' = "step5"
              /\ enrichedDecks' = enrichedDecks
  /\ UNCHANGED <<variant, decks, verified, exported, call, rendererVars>>

RateEach ==
  /\ pc = "step4"
  /\ LET i == FirstWithout(enrichedDecks, "rating")
     IN  IF i # 0
         THEN /\ enrichedDecks' =
                   [enrichedDecks EXCEPT ![i] =
                      Put(enrichedDecks[i], "rating",
                          RatingOf(variant, bayesianResults(variant, enrichedDecks)[i]))]
              /\ pc' = pc
         ELSE /\ pc' = "step5"
              /\ enrichedDecks' = enrichedDecks
  /\ UNCHANGED <<variant, decks, verified, exported, call, rendererVars>>

TierEach ==
  /\ pc = "step5"
  /\ LET i == FirstWithout(enrichedDecks, "tier")
     IN  IF i # 0
         THEN /\ enrichedDecks' =
                   [enrichedDecks EXCEPT ![i] = AssignTier(variant, enrichedDecks[i])]
              /\ pc' = pc
         ELSE /\ pc' = "step6"
              /\ enrichedDecks' = enrichedDecks
  /\ UNCHANGED <<variant, decks, verified, exported, call, rendererVars>>

\* decksByRating.forEach: the elements are visited in the sorted order p
RankEach ==
  /\ pc = "step6"
  /\ IF FirstWithout(enrichedDecks, "rank") # 0
     THEN /\ \E p \in decksByRating(enrichedDecks) :
               LET sorted == [pos \in 1..Len(enrichedDecks) |-> enrichedDecks[p[pos]]]
                   index == FirstWithout(sorted, "rank") - 1
               IN  enrichedDecks' =
                     [enrichedDecks EXCEPT ![p[index + 1]] =
                        AssignRank(enrichedDecks[p[index + 1]], index)]
          /\ pc' = pc
     ELSE /\ pc' = "step7"
          /\ enrichedDecks' = enrichedDecks
  /\ UNCHANGED <<variant, decks, verified, exported, call, rendererVars>>

PercentileEach ==
  /\ pc = "step7"
  /\ LET i == FirstWithout(enrichedDecks, "rank_pct")
     IN  IF i # 0
         THEN /\ enrichedDecks' =
                   [enrichedDecks EXCEPT ![i] =
                      Percentiles(enrichedDecks[i], enrichedDecks)]
              /\ pc' = pc
         ELSE /\ pc' = "step8"
              /\ enrichedDecks' = enrichedDecks
  /\ UNCHANGED <<variant, decks, verified, exported, call, rendererVars>>

RoundEach ==
  /\ pc = "step8"
  /\ LET i == FirstWithout(enrichedDecks, "share_rounded")
     IN  IF i # 0
         THEN /\ enrichedDecks' =
                   [enrichedDecks EXCEPT ![i] = Rounded(variant, enrichedDecks[i])]
              /\ pc' = pc
         ELSE /\ pc' = "output"
              /\ enrichedDecks' = enrichedDecks
  /\ UNCHANGED <<variant, decks, verified, exported, call, rendererVars>>

NextEach ==
  \/ MapEach \/ ShareEach \/ MetaImpactEach \/ RateEach \/ TierEach
  \/ RankEach \/ PercentileEach \/ RoundEach

SpecEach == Init /\ [][NextEach]_vars

(***************************************************************************)
(* The tier ladder applied to a rating of the caller's choice: the         *)
(* ratings 0, 1/2, 1, ... up to TierTop.                                   *)
(***************************************************************************)
TierTop == 101

TierRatings == {Num(k, 2) : k \in 0..(2 * TierTop)}

InitTier ==
  /\ RendererNotStarted
  /\ elements = PageAsLoaded
  /\ variant \in Variants
  /\ decks = <<>>
  /\ enrichedDecks = <<>>
  /\ pc = "call"
  /\ verified = "none"
  /\ exported = [set |-> FALSE, value |-> <<>>]
  /\ \E r \in TierRatings :
       call = [fn |-> "tier", value |-> r, sortedArray |-> <<>>,
               returned |-> FALSE, result |-> "none"]

CallTier ==
  /\ call.fn = "tier"
  /\ ~call.returned
  /\ call' = [call EXCEPT !.returned = TRUE, !.result = TierOf(variant, call.value)]
  /\ UNCHANGED <<variant, decks, enrichedDecks, pc, verified, exported, rendererVars>>

NextTier == CallTier

SpecTier == InitTier /\ [][NextTier]_vars

(***************************************************************************)
(* The z-score applied to one entity, called on its own: the sample size   *)
(* n and the population (baseZ in conditions.js, the meta adjustment in    *)
(* part_000 and part_001) are the caller's choice.                         *)
(***************************************************************************)
ZSmall == 250

\* sample sizes: every n up to ZSmall, and the later breakpoints with their
\* neighbours
ZSizes == (1..ZSmall) \cup {k - 1 : k \in DOMAIN Log10Large}

\* the values baseZ takes (the results of the confidence-to-z lookup)
BaseZs == {confidenceToZ(Milli(c)) : c \in {700, 750, 800, 850, 900, 950}}

\* the meta adjustments of populations of 1, 10, 50, 100 and 150 decks
MetaAdjustments == {getMetaAdjustmentFactor(d) : d \in {1, 10, 50, 100, 150}}

ZPopulations(v) == IF v = "conditions" THEN BaseZs ELSE MetaAdjustments

ZApplied(v, population, n) ==
  IF v = "conditions" THEN deckZ(population, n) ELSE adjustedZ(n, population)

InitZ ==
  /\ RendererNotStarted
  /\ elements = PageAsLoaded
  /\ variant \in Variants
  /\ decks = <<>>
  /\ enrichedDecks = <<>>
  /\ pc = "call"
  /\ verified = "none"
  /\ exported = [set |-> FALSE, value |-> <<>>]
  /\ \E n \in ZSizes : \E p \in ZPopulations(variant) :
       call = [fn |-> "z", value |-> n, population |-> p, sortedArray |-> <<>>,
               returned |-> FALSE, result |-> 0]

CallZ ==
  /\ call.fn = "z"
  /\ ~call.returned
  /\ call' = [call EXCEPT !.returned = TRUE,
                          !.result = ZApplied(variant, call.population, call.value)]
  /\ UNCHANGED <<variant, decks, enrichedDecks, pc, verified, exported, rendererVars>>

NextZ == CallZ

SpecZ == InitZ /\ [][NextZ]_vars

(***************************************************************************)
(* The deck renderer (renderDecks.js).  It reads the exported collection   *)
(* (module.exports or window.enrichedDecks) and shows it in batches.  A    *)
(* deck name is a sequence of characters.  Every handler runs to its end   *)
(* or to the statement that throws; pc is "loaded" before init(),          *)
(* "listening" once init() has registered the listeners and "threw" when   *)
(* init() was left by an exception.                                        *)
(***************************************************************************)
BATCH_SIZE == 50

\* the largest collection handed to the renderer
MaxRenderDecks == 51

RenderSizes == {0, 1, BATCH_SIZE, MaxRenderDecks}

DeckNameCycle == << <<"A", "b">>, <<"b", "a">>, <<"C">> >>
DeckTierCycle == <<"S", "A", "B", "A">>

\* the k-th record of a collection of n records with the fields all three
\* pipeline variants write and the renderer reads
ExportedRecord(k, n) ==
  [deck_name |-> DeckNameCycle[(k % 3) + 1],
   tier |-> DeckTierCycle[(k % 4) + 1],
   tier_display |-> DeckTierCycle[(k % 4) + 1],
   rank |-> ((7 * k) % n) + 1,
   rating |-> 150 - (((7 * k) % n) + 1),
   win_rate |-> 40 + (k % 5),
   share |-> k % 3,
   meta_impact |-> (3 * k) % 7,
   wins |-> k,
   losses |-> 2,
   ties |-> k % 2,
   count |-> k % 3,
   total_matches |-> k + 2 + (k % 2)]

\* a record that also has the two fields no pipeline variant writes
CompleteRecord(k, n) ==
  Put(Put(ExportedRecord(k, n), "rating_rounded", 150 - (((7 * k) % n) + 1)),
      "avg_tournament_depth", k % 4)

\* the collections found in module.exports / window.enrichedDecks
RenderInputs ==
  {[k \in 1..n |-> ExportedRecord(k, n)] : n \in RenderSizes}
    \cup {[k \in 1..n |-> CompleteRecord(k, n)] : n \in RenderSizes}

\* the values typed into the search box and offered by the two selects
SearchTexts == {<<>>, <<"a">>, <<"A", "B">>, <<"z">>}
TierChoices == {"all", "S", "X"}
SortChoices == {"rank", "rating", "winRate", "count", "metaImpact", "depth"}

LowerOf(c) ==
  CASE c = "A" -> "a" [] c = "B" -> "b" [] c = "C" -> "c" [] OTHER -> c

toLowerCase(text) == [i \in 1..Len(text) |-> LowerOf(text[i])]

\* includes that only looks at the start of the text
includesAtStart(text, term) ==
  Len(term) <= Len(text) /\ SubSeq(text, 1, Len(term)) = term

\* String.prototype.includes
includes(text, term) ==
  \E i \in 0..(Len(text) - Len(term)) : SubSeq(text, i + 1, i + Len(term)) = term

\* the callback of allDecks.filter
matchesFilters(deck, searchTerm, tierFilter) ==
  /\ includes(toLowerCase(deck.deck_name), searchTerm)
  /\ (tierFilter = "all" \/ deck.tier = tierFilter)

filter(all, searchTerm, tierFilter) ==
  LET keep(deck) == matchesFilters(deck, searchTerm, tierFilter)
  IN  SelectSeq(all, keep)

SortField ==
  [rank |-> "rank", rating |-> "rating", winRate |-> "win_rate", count |-> "count",
   metaImpact |-> "meta_impact", depth |-> "avg_tournament_depth"]

\* the comparator of filteredDecks.sort; a difference with an undefined
\* field is NaN, which the sort takes as +0
compare(sortBy, a, b) ==
  LET f == IF sortBy \in DOMAIN SortField THEN SortField[sortBy] ELSE "rank"
  IN  IF ~Has(a, f) \/ ~Has(b, f) THEN 0
      ELSE IF f = "rank" THEN a[f] - b[f]
      ELSE b[f] - a[f]

\* the place a stable sort gives list[i]: after every element the comparator
\* puts before it and every earlier element it compares equal to
sortedPosition(list, sortBy, i) ==
  1 + Cardinality({j \in 1..Len(list) :
                     \/ compare(sortBy, list[j], list[i]) < 0
                     \/ (compare(sortBy, list[j], list[i]) = 0 /\ j < i)})

\* Array.prototype.sort with that comparator (stable)
sort(list, sortBy) ==
  CHOOSE sorted \in
    { [p \in 1..Len(l) |-> l[CHOOSE i \in 1..Len(l) : position[i] = p]] :
        <<l, position>> \in
          { <<l0, [i \in 1..Len(l0) |-> sortedPosition(l0, sortBy, i)]>> : l0 \in {list} } } :
    TRUE

\* createDeckCard calls toFixed or toLocaleString on these fields, which
\* throws a TypeError when the field is undefined
MethodCalledOn == {"win_rate", "share", "meta_impact", "total_matches", "avg_tournament_depth"}

createDeckCardThrows(deck) == \E f \in MethodCalledOn : ~Has(deck, f)

\* a card, by the name and rank it shows
createDeckCard(deck) == [deck_name |-> deck.deck_name, rank |-> deck.rank]

\* the part of the state the render functions work on
Page ==
  [filteredDecks |-> filteredDecks, displayedDecks |-> displayedDecks,
   currentBatch |-> currentBatch, isLoading |-> isLoading, elements |-> elements,
   threw |-> FALSE]

renderNextBatch(r) ==
  LET start == r.currentBatch * BATCH_SIZE
      end == Min2(start + BATCH_SIZE, Len(r.filteredDecks))
      batch == SubSeq(r.filteredDecks, start + 1, end)
      pushed == r.displayedDecks \o batch
  IN  IF r.isLoading THEN r
      ELSE IF start >= Len(r.filteredDecks) THEN r
      ELSE IF \E i \in 1..Len(batch) : createDeckCardThrows(batch[i])
        THEN [r EXCEPT !.isLoading = TRUE, !.displayedDecks = pushed, !.threw = TRUE]
      ELSE [r EXCEPT !.isLoading = FALSE,
                     !.displayedDecks = pushed,
                     !.currentBatch = @ + 1,
                     !.elements.container =
                        @ \o [i \in 1..Len(batch) |-> createDeckCard(batch[i])],
                     !.elements.noResults = IF Len(pushed) = 0 THEN "block" ELSE "none"]

renderInitialBatch(r) ==
  renderNextBatch([r EXCEPT !.currentBatch = 0, !.displayedDecks = <<>>,
                            !.elements.container = <<>>])

applyFiltersAndSort(r) ==
  LET searchTerm == toLowerCase(r.elements.searchInput)
      tierFilter == r.elements.tierFilter
      sortBy == r.elements.sortSelect
  IN  renderInitialBatch(
        [r EXCEPT !.filteredDecks = sort(filter(allDecks, searchTerm, tierFilter), sortBy)])

\* the handler ended (or threw) with the state r
Becomes(r) ==
  /\ filteredDecks' = r.filteredDecks
  /\ displayedDecks' = r.displayedDecks
  /\ currentBatch' = r.currentBatch
  /\ isLoading' = r.isLoading
  /\ elements' = r.elements

totalMatchesOf(deck) == deck.total_matches

InitRender ==
  /\ variant = "part_000"
  /\ decks = <<>>
  /\ enrichedDecks = <<>>
  /\ pc = "loaded"
  /\ verified = "none"
  /\ exported \in {[set |-> TRUE, value |-> input] : input \in RenderInputs}
  /\ call = NoCall
  /\ RendererNotStarted
  /\ elements \in {[PageAsLoaded EXCEPT !.noResults = d] : d \in {"none", "block"}}

\* init(): the listeners are registered and the loading indicator hidden
\* only when the first render did not throw
RenderInit ==
  /\ pc = "loaded"
  /\ allDecks' = exported.value
  /\ LET sorted == [Page EXCEPT !.filteredDecks = sort(exported.value, "rank"),
                                !.elements.totalDecks = Len(exported.value),
                                !.elements.totalMatches =
                                   SeqSum(exported.value, totalMatchesOf)]
         r == renderInitialBatch(sorted)
     IN  IF r.threw
         THEN Becomes(r) /\ pc' = "threw"
         ELSE Becomes([r EXCEPT !.elements.loadingIndicator = "none"]) /\ pc' = "listening"
  /\ UNCHANGED <<variant, decks, enrichedDecks, verified, exported, call,
                 isGridView, searchTimeout>>

\* 'input' on the search box: the text changes and the 300 ms timer is set
InputSearch ==
  /\ pc = "listening"
  /\ \E text \in SearchTexts \ {elements.searchInput} :
       elements' = [elements EXCEPT !.searchInput = text]
  /\ searchTimeout' = "pending"
  /\ UNCHANGED <<variant, decks, enrichedDecks, pc, verified, exported, call,
                 allDecks, filteredDecks, displayedDecks, currentBatch,
                 isGridView, isLoading>>

\* the search timer fires
SearchTimeout ==
  /\ pc = "listening"
  /\ searchTimeout = "pending"
  /\ searchTimeout' = "none"
  /\ Becomes(applyFiltersAndSort(Page))
  /\ UNCHANGED <<variant, decks, enrichedDecks, pc, verified, exported, call,
                 allDecks, isGridView>>

\* 'change' on the sort select
ChangeSort ==
  /\ pc = "listening"
  /\ \E sortBy \in SortChoices \ {elements.sortSelect} :
       Becomes(applyFiltersAndSort([Page EXCEPT !.elements.sortSelect = sortBy]))
  /\ UNCHANGED <<variant, decks, enrichedDecks, pc, verified, exported, call,
                 allDecks, isGridView, searchTimeout>>

\* 'change' on the tier filter
ChangeTier ==
  /\ pc = "listening"
  /\ \E tier \in TierChoices \ {elements.tierFilter} :
       Becomes(applyFiltersAndSort([Page EXCEPT !.elements.tierFilter = tier]))
  /\ UNCHANGED <<variant, decks, enrichedDecks, pc, verified, exported, call,
                 allDecks, isGridView, searchTimeout>>

\* 'click' on the grid button while the list view is shown
ClickGridView ==
  /\ pc = "listening"
  /\ ~isGridView
  /\ isGridView' = TRUE
  /\ Becomes(renderInitialBatch([Page EXCEPT !.elements.className = "deck-grid"]))
  /\ UNCHANGED <<variant, decks, enrichedDecks, pc, verified, exported, call,
                 allDecks, searchTimeout>>

\* 'click' on the list button while the grid view is shown
ClickListView ==
  /\ pc = "listening"
  /\ isGridView
  /\ isGridView' = FALSE
  /\ Becomes(renderInitialBatch([Page EXCEPT !.elements.className = "deck-list"]))
  /\ UNCHANGED <<variant, decks, enrichedDecks, pc, verified, exported, call,
                 allDecks, searchTimeout>>

\* the timer of the scroll listener fires with the page scrolled to within
\* SCROLL_THRESHOLD of its end
ScrollTimeout ==
  /\ pc = "listening"
  /\ Becomes(IF ~isLoading THEN renderNextBatch(Page) ELSE Page)
  /\ UNCHANGED <<variant, decks, enrichedDecks, pc, verified, exported, call,
                 allDecks, isGridView, searchTimeout>>

\* 'keydown' of Escape with the search box focused
KeydownEscape ==
  /\ pc = "listening"
  /\ Becomes(applyFiltersAndSort([Page EXCEPT !.elements.searchInput = <<>>]))
  /\ UNCHANGED <<variant, decks, enrichedDecks, pc, verified, exported, call,
                 allDecks, isGridView, searchTimeout>>

NextRender ==
  \/ RenderInit \/ InputSearch \/ SearchTimeout \/ ChangeSort \/ ChangeTier
  \/ ClickGridView \/ ClickListView \/ ScrollTimeout \/ KeydownEscape

SpecRender == InitRender /\ [][NextRender]_vars

\* init() runs once the document is ready, and scroll events keep coming:
\* the timer of the scroll listener keeps firing
SpecRenderScrolling == SpecRender /\ WF_vars(RenderInit) /\ WF_vars(ScrollTimeout)

(***************************************************************************)
(* Properties.                                                             *)
(***************************************************************************)
StepNo ==
  [step1 |-> 1, step2 |-> 2, step3 |-> 3, step4 |-> 4, step5 |-> 5, step6 |-> 6,
   step7 |-> 7, step8 |-> 8, output |-> 9, verify |-> 10, export |-> 11,
   done |-> 12, crashed |-> 12]

\* stage k (1..8 the steps, 9 output, 10 verification, 11 export) has run
Ran(k) == StepNo[pc] > k

N == Len(enrichedDecks)

PctFields ==
  {"rating_pct", "count_pct", "total_matches_pct", "win_rate_pct",
   "adjusted_win_rate_pct", "avg_matches_per_entry_pct", "meta_impact_pct", "rank_pct"}

InRange0To100(v) == IsFiniteNum(v) /\ JsGeq(v, Int2Num(0)) /\ JsGeq(Int2Num(100), v)

Degenerate(raw) == raw.count = 0 \/ raw.wins + raw.losses + raw.ties = 0

\* C1: once ranks are assigned, every integer 1..N is the rank of exactly one
\* entity and no entity has a rank outside 1..N (equal ratings included).
C1_RanksArePermutation ==
  Ran(6) =>
    /\ \A i \in 1..N : enrichedDecks[i].rank \in 1..N
    /\ \A r \in 1..N : Cardinality({i \in 1..N : enrichedDecks[i].rank = r}) = 1

\* C1 witness: ranks were assigned to a population in which two entities
\* have the same finite rating.
C1_Witness ==
  /\ Ran(6)
  /\ \E i, j \in 1..N :
       /\ i # j
       /\ IsFiniteNum(enrichedDecks[i].rating)
       /\ enrichedDecks[i].rating = enrichedDecks[j].rating
       /\ enrichedDecks[i].rank # enrichedDecks[j].rank

\* C2 (as claimed): once percentiles are computed, every percentile field of
\* every entity is a number within [0, 100], for every population size N >= 1.
C2_PercentilesInRange ==
  Ran(7) => \A i \in 1..N : \A f \in PctFields : InRange0To100(enrichedDecks[i][f])

\* C3 (as claimed): in every non-empty population the entity of rank 1 has
\* rank percentile 100 and the entity of rank N has rank percentile 0.
C3_RankPercentileEndsAnyN ==
  Ran(7) =>
    \A i \in 1..N :
       /\ enrichedDecks[i].rank = 1 => enrichedDecks[i].rank_pct = Int2Num(100)
       /\ enrichedDecks[i].rank = N => enrichedDecks[i].rank_pct = Int2Num(0)

\* Rank percentile ends for N >= 2: in every population of at least two
\* entities the entity of rank 1 has rank percentile 100 and the entity of
\* rank N has rank percentile 0 (the case N = 1 is the one C3 fails on).
C3_RankPercentileEnds ==
  (Ran(7) /\ N >= 2) =>
    \A i \in 1..N :
       /\ enrichedDecks[i].rank = 1 => enrichedDecks[i].rank_pct = Int2Num(100)
       /\ enrichedDecks[i].rank = N => enrichedDecks[i].rank_pct = Int2Num(0)

\* Three ranked entities with rank percentiles 100, 50 and 0.
C3_Witness ==
  /\ Ran(7)
  /\ N = 3
  /\ \E i, j, m \in 1..N :
       /\ enrichedDecks[i].rank = 1 /\ enrichedDecks[i].rank_pct = Int2Num(100)
       /\ enrichedDecks[m].rank = 2 /\ enrichedDecks[m].rank_pct = Int2Num(50)
       /\ enrichedDecks[j].rank = 3 /\ enrichedDecks[j].rank_pct = Int2Num(0)

\* C4 (as claimed): a population of one non-degenerate entity ends with share
\* 100, share versus the most played deck 100, rank 1 and every percentile
\* equal to 0 or to 100.
C4_SingleEntity ==
  (Ran(7) /\ N = 1 /\ ~Degenerate(decks[1])) =>
    /\ enrichedDecks[1].share = Int2Num(100)
    /\ enrichedDecks[1].share_compared_to_most_played_deck = Int2Num(100)
    /\ enrichedDecks[1].rank = 1
    /\ \A f \in PctFields : enrichedDecks[1][f] \in {Int2Num(0), Int2Num(100)}

NumericOutputs ==
  {"win_rate", "adjusted_win_rate", "avg_matches_per_entry", "rating", "meta_impact"}
    \cup PctFields

\* C5 (as claimed): when an input record has count = 0 or no matches, no NaN
\* or Infinity is stored in the win rate, adjusted win rate, depth, rating,
\* meta impact or a percentile of any entity.
C5_NoNaNStored ==
  (\E j \in 1..Len(decks) : Degenerate(decks[j])) =>
    \A i \in 1..N : \A f \in NumericOutputs :
       Has(enrichedDecks[i], f) => IsFiniteNum(enrichedDecks[i][f])

\* C6 (as claimed): a run on an empty input never completes: its result is
\* never exported as if the run had succeeded.
C6_EmptyRejected ==
  Len(decks) = 0 => (~exported.set /\ pc # "done")

\* C7: once tiers are assigned every entity has a tier of the enumeration,
\* and an entity whose rating meets no threshold has the tier Unranked.
C7_TierAlwaysAssigned ==
  Ran(5) =>
    \A i \in 1..N :
       /\ Has(enrichedDecks[i], "tier")
       /\ enrichedDecks[i].tier \in Tiers
       /\ (\A t \in 1..Len(TierLadder(variant)) :
             ~JsGeq(enrichedDecks[i].rating, Int2Num(TierLadder(variant)[t][1])))
            => enrichedDecks[i].tier = "Unranked"

\* C7 witness: tiers were assigned, an entity with a finite rating below the
\* lowest threshold is Unranked and another entity of the population met a
\* threshold.
C7_Witness ==
  /\ Ran(5)
  /\ \E i \in 1..N :
       /\ IsFiniteNum(enrichedDecks[i].rating)
       /\ JsLess(enrichedDecks[i].rating, Int2Num(75))
       /\ enrichedDecks[i].tier = "Unranked"
  /\ \E j \in 1..N : enrichedDecks[j].tier \in Tiers \ {"Unranked"}

RawOf(deck) == decks[CHOOSE j \in 1..Len(decks) : decks[j].deck_name = deck.deck_name]

\* C8: from stage 1 to the end, every entity's total_matches is the sum of
\* its wins, losses and ties, and these four still are the input's values.
C8_TotalMatchesIsSum ==
  Ran(1) =>
    /\ N = Len(decks)
    /\ \A i \in 1..N :
         /\ enrichedDecks[i].wins = RawOf(enrichedDecks[i]).wins
         /\ enrichedDecks[i].losses = RawOf(enrichedDecks[i]).losses
         /\ enrichedDecks[i].ties = RawOf(enrichedDecks[i]).ties
         /\ enrichedDecks[i].total_matches =
              enrichedDecks[i].wins + enrichedDecks[i].losses + enrichedDecks[i].ties

\* C8 witness: the pipeline has finished with an entity that has a tie, and
\* the collection was reordered by the output stage.
C8_Witness ==
  /\ pc = "done"
  /\ \E i \in 1..N : enrichedDecks[i].ties > 0 /\ enrichedDecks[i].total_matches > 0
  /\ \E i \in 1..N : enrichedDecks[i].deck_name # decks[i].deck_name

RECURSIVE SumShares(_, _)
SumShares(eds, i) ==
  IF i = 0 THEN Int2Num(0) ELSE JsAdd(eds[i].share, SumShares(eds, i - 1))

\* C9: when the total count is positive, the shares of the population add up
\* to 100 (exactly, in the rational arithmetic of the model).
C9_SharesSumTo100 ==
  (Ran(2) /\ totalCount(enrichedDecks) > 0) =>
    SumShares(enrichedDecks, N) = Int2Num(100)

\* C9 witness: shares were computed for three entities that each hold a third
\* of the total count, a share that is not a whole number.
C9_Witness ==
  /\ Ran(2)
  /\ N = 3
  /\ \A i \in 1..N : enrichedDecks[i].share = Num(100, 3)

SameWinRate(a, b) ==
  /\ a.wins * b.total_matches = b.wins * a.total_matches
  /\ a.losses * b.total_matches = b.losses * a.total_matches
  /\ a.ties * b.total_matches = b.ties * a.total_matches

\* C10 (as claimed): of two entities with the same proportions of wins,
\* losses and ties, the one with fewer matches never has the higher rating.
C10_Shrinkage ==
  Ran(4) =>
    \A i, j \in 1..N :
       ( /\ enrichedDecks[i].total_matches > 0
         /\ enrichedDecks[i].total_matches < enrichedDecks[j].total_matches
         /\ SameWinRate(enrichedDecks[i], enrichedDecks[j]) )
         => JsGeq(enrichedDecks[j].rating, enrichedDecks[i].rating)

\* the input in which record i has one loss replaced by a win
WinForLoss(raw, i) == [raw EXCEPT ![i].wins = @ + 1, ![i].losses = @ - 1]

\* the ratings stages 1 to 4 give to the records of an input
RatingsOf(v, raw) ==
  LET eds == [i \in 1..Len(raw) |-> BasicMetrics(raw[i])]
  IN  [i \in 1..Len(raw) |-> RatingOf(v, bayesianResults(v, eds)[i])]

\* C11 (as claimed): with the other entities and the sample size fixed,
\* replacing one loss of an entity by a win never decreases its rating.
C11_Monotonicity ==
  Ran(4) =>
    \A i \in 1..N :
       decks[i].losses > 0 =>
         JsGeq(RatingsOf(variant, WinForLoss(decks, i))[i], enrichedDecks[i].rating)

\* the collection stage k (1..8 the steps, 9 the output section) computes
\* from the collection eds of the stage before it and the input raw
StageResult(v, k, eds, raw) ==
  CASE k = 1 -> [i \in 1..Len(raw) |-> BasicMetrics(raw[i])]
    [] k = 2 -> [i \in 1..Len(eds) |->
                   ShareMetrics(eds[i], totalCount(eds), mostPlayedDeckCount(eds))]
    [] k = 3 -> [i \in 1..Len(eds) |-> MetaImpact(eds[i])]
    [] k = 4 -> [i \in 1..Len(eds) |->
                   Put(eds[i], "rating", RatingOf(v, bayesianResults(v, eds)[i]))]
    [] k = 5 -> [i \in 1..Len(eds) |-> AssignTier(v, eds[i])]
    [] k = 6 -> LET p == CHOOSE q \in decksByRating(eds) : TRUE
                IN  [i \in 1..Len(eds) |-> AssignRank(eds[i], PosIn(p, i) - 1)]
    [] k = 7 -> [i \in 1..Len(eds) |-> Percentiles(eds[i], eds)]
    [] k = 8 -> [i \in 1..Len(eds) |-> Rounded(v, eds[i])]
    [] k = 9 -> SortByRank(eds)

RECURSIVE ResultAfter(_, _, _)
ResultAfter(v, raw, k) ==
  IF k = 0 THEN <<>> ELSE StageResult(v, k, ResultAfter(v, raw, k - 1), raw)

\* C12: the exported collection is a function of the input sequence (and of
\* the source variant that runs): every run on the same input exports the
\* same entities in the same order with the same value in every field.
C12_Deterministic ==
  exported.set => exported.value = ResultAfter(variant, decks, 9)

\* C12 witness: a run has exported a population in which two entities have
\* the same finite rating and two have different ratings.
C12_Witness ==
  /\ exported.set
  /\ \E i, j \in 1..Len(exported.value) :
       /\ i # j
       /\ IsFiniteNum(exported.value[i].rating)
       /\ exported.value[i].rating = exported.value[j].rating
  /\ \E i, j \in 1..Len(exported.value) :
       exported.value[i].rating # exported.value[j].rating

\* C13 (as claimed): the entity at position i of the exported collection is
\* the enrichment of the input record at position i.
C13_ExportKeepsInputOrder ==
  exported.set =>
    /\ Len(exported.value) = Len(decks)
    /\ \A i \in 1..Len(decks) : exported.value[i].deck_name = decks[i].deck_name

ContractFields ==
  {"rating", "tier", "tier_display", "rank", "share", "win_rate",
   "adjusted_win_rate", "meta_impact",
   "count_rounded", "total_matches_rounded", "win_rate_rounded", "share_rounded"}
    \cup PctFields

\* C14 (as claimed): every exported record carries all the required output
\* fields under their contract names, in every source variant.
C14_AllFieldsPresent ==
  exported.set =>
    \A i \in 1..Len(exported.value) : \A f \in ContractFields :
       Has(exported.value[i], f)

RoundedFields ==
  {"count_rounded", "total_matches_rounded", "win_rate_rounded", "share_rounded"}

\* C15: the stage of the rounded values adds the four rounded display fields
\* to every entity and changes no other field of any entity.
C15_FormatterFrame ==
  [][(pc = "step8" /\ pc' = "output") =>
       /\ Len(enrichedDecks') = Len(enrichedDecks)
       /\ \A i \in 1..Len(enrichedDecks) :
            /\ DOMAIN enrichedDecks'[i] = (DOMAIN enrichedDecks[i]) \cup RoundedFields
            /\ \A f \in DOMAIN enrichedDecks[i] :
                 enrichedDecks'[i][f] = enrichedDecks[i][f]]_vars

\* C15 witness: the rounded values were written for three entities whose
\* share is 100/3, which rounds to 33, and whose count 1 rounds to 0.
C15_Witness ==
  /\ Ran(8)
  /\ variant = "conditions"
  /\ N = 3
  /\ \A i \in 1..N :
       /\ enrichedDecks[i].share = Num(100, 3)
       /\ enrichedDecks[i].share_rounded = Int2Num(33)
       /\ enrichedDecks[i].count = 1
       /\ enrichedDecks[i].count_rounded = 0

RawFields == {"deck_name", "count", "wins", "losses", "ties"}

\* C17: no step changes the input array, whose objects keep exactly their
\* five raw fields, and every input record has one enriched record that
\* carries its five raw values.
C17_InputUntouched ==
  /\ [][decks' = decks]_vars
  /\ [](/\ \A j \in 1..Len(decks) : DOMAIN decks[j] = RawFields
        /\ Ran(1) =>
             /\ N = Len(decks)
             /\ \A j \in 1..Len(decks) :
                  Cardinality({i \in 1..N :
                     \A f \in RawFields : enrichedDecks[i][f] = decks[j][f]}) = 1)

\* C17 witness: the run is over, the enriched records carry the derived
\* fields and were reordered, and the input is a population of raw records.
C17_Witness ==
  /\ pc = "done"
  /\ N >= 2
  /\ \E i \in 1..N : enrichedDecks[i].deck_name # decks[i].deck_name
  /\ \A i \in 1..N : Has(enrichedDecks[i], "share_rounded") /\ ~Has(decks[i], "share_rounded")

\* position of an entity's record in the input
InputPos(deck) == CHOOSE j \in 1..Len(decks) : decks[j].deck_name = deck.deck_name

\* C19: once ranks are assigned, of two entities with finite ratings the one
\* with the smaller rank number has the rating that is at least as high, so a
\* strictly higher rating always has a strictly smaller rank number.
C19_RanksFollowRating ==
  Ran(6) =>
    \A a, b \in 1..N :
       ( /\ IsFiniteNum(enrichedDecks[a].rating)
         /\ IsFiniteNum(enrichedDecks[b].rating)
         /\ enrichedDecks[a].rank < enrichedDecks[b].rank )
         => JsGeq(enrichedDecks[a].rating, enrichedDecks[b].rating)

\* C19 witness: ranks were assigned and the best-rated entity, of rank 1, is
\* not the first record of the input and has a strictly higher rating than
\* the entity of rank 2.
C19_Witness ==
  /\ Ran(6)
  /\ \E a, b \in 1..N :
       /\ enrichedDecks[a].rank = 1
       /\ enrichedDecks[b].rank = 2
       /\ InputPos(enrichedDecks[a]) > InputPos(enrichedDecks[b])
       /\ IsFiniteNum(enrichedDecks[a].rating)
       /\ JsLess(enrichedDecks[b].rating, enrichedDecks[a].rating)

\* C20: once ranks are assigned, two entities with equal ratings have their
\* ranks in the order of their positions in the input.
C20_StableTieBreak ==
  Ran(6) =>
    \A a, b \in 1..N :
       ( /\ IsFiniteNum(enrichedDecks[a].rating)
         /\ enrichedDecks[a].rating = enrichedDecks[b].rating
         /\ InputPos(enrichedDecks[a]) < InputPos(enrichedDecks[b]) )
         => enrichedDecks[a].rank < enrichedDecks[b].rank

\* C20 witness: ranks were assigned to three entities of which the first and
\* the last record of the input have equal ratings and the record between
\* them a higher one.
C20_Witness ==
  /\ Ran(6)
  /\ N = 3
  /\ \E a, b, c \in 1..N :
       /\ InputPos(enrichedDecks[a]) = 1
       /\ InputPos(enrichedDecks[b]) = 2
       /\ InputPos(enrichedDecks[c]) = 3
       /\ IsFiniteNum(enrichedDecks[a].rating)
       /\ enrichedDecks[a].rating = enrichedDecks[c].rating
       /\ JsLess(enrichedDecks[a].rating, enrichedDecks[b].rating)
       /\ enrichedDecks[b].rank = 1
       /\ enrichedDecks[a].rank = 2
       /\ enrichedDecks[c].rank = 3

ExampleArray == <<Int2Num(50), Int2Num(60), Int2Num(70), Int2Num(80), Int2Num(90)>>

\* C18 (as claimed): calculatePercentile returns a number within 0 to 100 for
\* any value and any ascending array, 50 for the value 75 in the array
\* [50, 60, 70, 80, 90] and 100 for the value 95 in it.
C18_PercentileContract ==
  call.returned =>
    /\ InRange0To100(call.result)
    /\ (call.sortedArray = ExampleArray /\ call.value = Int2Num(75))
         => call.result = Int2Num(50)
    /\ (call.sortedArray = ExampleArray /\ call.value = Int2Num(95))
         => call.result = Int2Num(100)

\* C16: no entity has a share before every input record has its enriched
\* record (and so its count), no entity has a rank before every entity has a
\* rating, and no entity has a percentile before every entity has a rank.
C16_StagesInSequence ==
  /\ (\E i \in 1..N : Has(enrichedDecks[i], "share")) => N = Len(decks)
  /\ (\E i \in 1..N : Has(enrichedDecks[i], "rank"))
       => \A j \in 1..N : Has(enrichedDecks[j], "rating")
  /\ (\E i \in 1..N : \E f \in PctFields : Has(enrichedDecks[i], f))
       => \A j \in 1..N : Has(enrichedDecks[j], "rank")

\* C16 witness: the ranking loop is under way in a population of three: one
\* entity has its rank, another has none yet, and all three have a rating.
C16_Witness ==
  /\ pc = "step6"
  /\ N = 3
  /\ \E i, j \in 1..N : Has(enrichedDecks[i], "rank") /\ ~Has(enrichedDecks[j], "rank")
  /\ \A j \in 1..N : Has(enrichedDecks[j], "rating")

\* the tiers from the lowest to the highest
TierOrder == <<"Unranked", "F", "E", "D", "C", "B", "A", "S", "Splus", "X">>

TierLevel(t) == CHOOSE i \in 1..Len(TierOrder) : TierOrder[i] = t

\* C21: the tier is monotone in the rating (a rating at least as high never
\* gets a lower tier), and a rating equal to a threshold of the ladder gets
\* that threshold's tier.
C21_TierMonotone ==
  call.returned =>
    /\ \A r \in TierRatings :
         JsGeq(r, call.value) => TierLevel(TierOf(variant, r)) >= TierLevel(call.result)
    /\ \A t \in 1..Len(TierLadder(variant)) :
         call.value = Int2Num(TierLadder(variant)[t][1])
           => call.result = TierLadder(variant)[t][2]

\* C21 witness: the ladder was applied to a rating that is exactly the
\* threshold 97 and returned the tier Splus.
C21_Witness ==
  /\ call.returned
  /\ call.fn = "tier"
  /\ call.value = Int2Num(97)
  /\ call.result = "Splus"

\* 0.99 * scale, the highest rating the clamp of the bound allows
RatingCap(v) == JsMul(Num(99, 100), Int2Num(IF v = "conditions" THEN ScaleConditions ELSE ScalePart))

WithinCap(v, rating) ==
  IsFiniteNum(rating) /\ JsGeq(rating, Int2Num(0)) /\ JsGeq(RatingCap(v), rating)

\* C22 (as claimed): once rated, every entity with at least one match has a
\* rating within [0, 0.99 * scale]: never negative, never above the cap.
C22_RatingWithinCap ==
  Ran(4) =>
    \A i \in 1..N :
       enrichedDecks[i].total_matches >= 1 => WithinCap(variant, enrichedDecks[i].rating)

\* C22 restricted to populations in which every entity has a match: there
\* the clamps of the bound keep every rating within [0, 0.99 * scale]
C22_WithinCapWhenAllPlayed ==
  (Ran(4) /\ \A j \in 1..N : enrichedDecks[j].total_matches >= 1) =>
    \A i \in 1..N : WithinCap(variant, enrichedDecks[i].rating)

\* the Beta prior the rating engine uses for a population: mean in FS units,
\* variance in FS * FS units
PriorOf(v, eds) ==
  IF v = "conditions"
  THEN LET pr == PriorConditions(bayesianInput(eds))
       IN  [mean |-> pr.priorCenter, variance |-> pr.adjustedVariance,
            alpha0 |-> pr.priorAlpha, beta0 |-> pr.priorBeta]
  ELSE LET pr == PriorPart(bayesianInput(eds))
       IN  [mean |-> pr.meanEst, variance |-> pr.varEst,
            alpha0 |-> pr.priorAlpha, beta0 |-> pr.priorBeta]

NonDegeneratePopulation ==
  Len(decks) >= 1 /\ \A j \in 1..Len(decks) : ~Degenerate(decks[j])

\* C23: once a population of non-degenerate entities is rated, the prior
\* mean used is within [0.01, 0.99], the variance used is strictly positive
\* and at most 90% of mean * (1 - mean), and alpha0 and beta0 are strictly
\* positive (equal win rates and a mean of 0 or 1 included).
C23_PriorWellDefined ==
  (Ran(4) /\ NonDegeneratePopulation) =>
    LET pr == PriorOf(variant, enrichedDecks)
    IN  /\ pr.mean >= Milli(10)
        /\ pr.mean <= Milli(990)
        /\ pr.variance > 0
        /\ 10 * pr.variance <= 9 * (pr.mean * (FS - pr.mean))
        /\ pr.alpha0 > 0
        /\ pr.beta0 > 0

\* a rated population of two entities that both lost every match: the
\* weighted mean is 0 and the variance is 0
C23_Witness ==
  /\ pc = "step5"
  /\ NonDegeneratePopulation
  /\ N = 2
  /\ variant = "part_000"
  /\ \A i \in 1..N : enrichedDecks[i].wins = 0 /\ enrichedDecks[i].ties = 0
  /\ PriorPart(bayesianInput(enrichedDecks)).weightedMean = 0
  /\ PriorPart(bayesianInput(enrichedDecks)).betweenDeckVariance = 0

NearestMultiples(x) ==
  LET interval == getSmartRoundingInterval(x)
  IN  {m \in 0..(x + interval) : m % interval = 0 /\ 2 * Abs(m - x) <= interval}

\* r is such a multiple (part_001 stores text: r is its decimal form)
IsNearestMultiple(v, r, x) ==
  IF v = "part_001" THEN r \in {ToString(m) : m \in NearestMultiples(x)}
  ELSE r \in NearestMultiples(x)

\* C25 (as claimed): once the rounded values are written, count_rounded and
\* total_matches_rounded are each the nearest multiple of the interval
\* (5 below 100, 10 below 1000, 50 below 10000, 100 otherwise) of the value
\* rounded, at most half an interval away from it.
C25_RoundedToSmartInterval ==
  Ran(8) =>
    \A i \in 1..N :
       /\ IsNearestMultiple(variant, enrichedDecks[i].count_rounded, enrichedDecks[i].count)
       /\ IsNearestMultiple(variant, enrichedDecks[i].total_matches_rounded,
                            enrichedDecks[i].total_matches)

\* the fields createDeckCard and the sort of applyFiltersAndSort read
RendererFields ==
  {"deck_name", "rank", "tier", "tier_display", "rating_rounded", "win_rate",
   "share", "meta_impact", "wins", "losses", "ties", "count", "total_matches",
   "avg_tournament_depth", "rating"}

\* C26 (as claimed): every field the renderer reads from a deck record has
\* been written by the pipeline on every exported record.
C26_RendererFieldsWritten ==
  exported.set =>
    \A i \in 1..Len(exported.value) : \A f \in RendererFields :
       Has(exported.value[i], f)

\* init() has run, to its end or to an exception
AfterInit == pc \in {"listening", "threw"}

\* every record handed to the renderer has the fields createDeckCard
\* calls a method on
CardsRender ==
  \A i \in 1..Len(exported.value) : ~createDeckCardThrows(exported.value[i])

PrefixShown ==
  displayedDecks =
    SubSeq(filteredDecks, 1, Min2(currentBatch * BATCH_SIZE, Len(filteredDecks)))

\* C27 (as claimed): after init and any sequence of batch loads, filter and
\* sort changes and view switches, displayedDecks is the prefix of
\* filteredDecks of length min(currentBatch * BATCH_SIZE, filteredDecks.length).
C27_DisplayedIsPrefix == AfterInit => PrefixShown

\* C27 for collections whose cards can be built
C27_PrefixWhenCardsRender == (AfterInit /\ CardsRender) => PrefixShown

\* C28 (as claimed): after init, the no-results message is displayed exactly
\* when the displayed list is empty (shown when a filter or search leaves
\* filteredDecks empty, hidden when it leaves it non-empty).
C28_NoResultsMatches ==
  AfterInit => (elements.noResults = "block" <=> displayedDecks = <<>>)

\* C29 (as claimed): isLoading is false after every renderNextBatch call;
\* after ceil(filteredDecks.length / BATCH_SIZE) loads everything is
\* displayed; once everything is displayed a further scroll-triggered call
\* changes nothing; and when from some point on only scroll-triggered calls
\* happen, every deck of filteredDecks is eventually displayed.
C29_ScrollShowsEverything ==
  /\ [](AfterInit => ~isLoading)
  /\ []((AfterInit /\ currentBatch * BATCH_SIZE >= Len(filteredDecks))
          => displayedDecks = filteredDecks)
  /\ [][(ScrollTimeout /\ displayedDecks = filteredDecks) => UNCHANGED rendererVars]_vars
  /\ (<>[][ScrollTimeout]_vars => <>[](AfterInit /\ displayedDecks = filteredDecks))

\* the name holds the term at some position, letter case aside
ContainsIgnoringCase(name, term) ==
  \E i \in 0..(Len(name) - Len(term)) :
     \A k \in 1..Len(term) : LowerOf(name[i + k]) = LowerOf(term[k])

\* the decks of allDecks the current search text and tier filter select
Selected ==
  {i \in 1..Len(allDecks) :
     /\ ContainsIgnoringCase(allDecks[i].deck_name, elements.searchInput)
     /\ (elements.tierFilter = "all" \/ allDecks[i].tier = elements.tierFilter)}

\* C30: after init and after every search, tier-filter and sort operation
\* (no search timer pending), filteredDecks holds exactly the decks of
\* allDecks whose name contains the search text, letter case aside, and whose
\* tier is the selected one (any tier for 'all'), each once; and allDecks
\* still is the collection that was handed to the renderer.
C30_FilteredIsSelection ==
  (AfterInit /\ searchTimeout = "none") =>
    /\ Len(filteredDecks) = Cardinality(Selected)
    /\ \A i \in Selected :
         Cardinality({j \in 1..Len(filteredDecks) : filteredDecks[j] = allDecks[i]}) = 1
    /\ allDecks = exported.value

\* a search for "AB" in upper case, sorted by count, has selected some but
\* not all of the 51 decks
C30_Witness ==
  /\ pc = "listening"
  /\ searchTimeout = "none"
  /\ elements.searchInput = <<"A", "B">>
  /\ elements.sortSelect = "count"
  /\ Len(allDecks) = MaxRenderDecks
  /\ Len(filteredDecks) > 0
  /\ Len(filteredDecks) < Len(allDecks)

====
